---- MODULE Spec2Model ----
(***************************************************************************)
(* Job orchestration and progress tracking of the video compressor SDK:    *)
(*   BatchCompressor / BatchProgress   (web/video_compressor/batch.py)     *)
(*   VideoCompressor                   (src/video_compressor/compressor.py)*)
(*   ProgressTracker                   (web/video_compressor/progress.py)  *)
(*                                                                         *)
(* Time is counted in tenths of a second.  Paths are <<directory, stem>>   *)
(* pairs: os.path.basename keeps the stem, and the output path of a bare   *)
(* input is <<output_dir, stem>> (".webm").                                *)
(***************************************************************************)
EXTENDS Integers, Sequences, FiniteSets, TLC

VARIABLES
    \* ---- compress_batch (batch.py) ----
    files,          \* argument `files`: sequence of entries
    output_dir,     \* argument `output_dir` ("None" when absent)
    max_workers,    \* BatchCompressor.max_workers
    req,            \* codec / preserve_alpha / progress_callback arguments
    mpc,            \* position of the calling thread inside compress_batch
    file_pairs,     \* local `file_pairs`
    submitted,      \* number of executor.submit calls done
    queue,          \* executor work queue (job indices, FIFO)
    numThreads,     \* worker threads the executor has created
    idleSem,        \* executor's idle-thread semaphore
    job,            \* per job: position inside _compress_single / compress
    waiter,         \* as_completed: futures finished since the waiter is installed
    early,          \* as_completed: futures found finished when it was entered
    yielded,        \* futures as_completed has yielded so far
    results,        \* local `results`
    disk,           \* output paths at which a file exists
    presetCodec,    \* PRESETS[preset].codec (module-level table, shared)
    now,            \* wall clock, time.time()
    events,         \* per job: what the progress sink has been called with
    finishOrder,    \* the jobs whose future is set, in the order they were set
    \* ---- one ProgressTracker driven directly ----
    tr,             \* the tracker's fields
    trLog,          \* calls the sink received, with the wall-clock time of each and
                    \* the speed argument of the update behind it (0 for complete)
    trLast,         \* outcome of the last call: "none" | "emitted" | "throttled" | "raised"
    \* ---- one BatchProgress driven sequentially ----
    bp,             \* total_files, completed_files, file_progress
    bpHist,         \* the update_file_progress calls made so far
    \* ---- one BatchProgress called from concurrent workers ----
    cbp,            \* the shared BatchProgress
    cth,            \* per worker thread: position inside update_file_progress
    \* ---- compress called repeatedly in one process ----
    presets,        \* PRESETS: the built-in table, preset name -> CompressionPreset
    cmdRef,         \* an earlier compress call that built a command, kept for comparison
    cmdLast,        \* the last compress call: its arguments and what it built
    \* ---- FFmpegProgressParser.parse_progress called on a line ----
    pLine,          \* the line given to parse_progress
    pOut            \* what the call gave: a sample, None, or an exception

vars == <<files, output_dir, max_workers, req, mpc, file_pairs, submitted, queue,
          numThreads, idleSem, job, waiter, early, yielded, results, disk,
          presetCodec, now, events, finishOrder, tr, trLog, trLast, bp, bpHist, cbp, cth,
          presets, cmdRef, cmdLast, pLine, pOut>>

batchVars == <<files, output_dir, max_workers, req, mpc, file_pairs, submitted, queue,
               numThreads, idleSem, job, waiter, early, yielded, results, disk,
               presetCodec, now, events, finishOrder>>
trackerVars == <<tr, trLog, trLast>>
bpVars == <<bp, bpHist>>
concVars == <<cbp, cth>>
cmdVars == <<presets, cmdRef, cmdLast>>
parseVars == <<pLine, pOut>>
nonBatchVars == <<tr, trLog, trLast, bp, bpHist, cbp, cth, presets, cmdRef, cmdLast,
                  pLine, pOut>>

----------------------------------------------------------------------------
\* Bounds of the model.

MaxLines == 1          \* status lines read per job in a batch run
MaxElapsed == 5        \* wall-clock tenths that pass during a run
StartClock == 5        \* time.time() when the run starts (any value >= the interval)
MaxCalls == 3          \* calls recorded on a directly driven tracker / BatchProgress
MaxTrackerElapsed == 6 \* wall-clock tenths that pass while a tracker is driven
CpuCount == 1          \* os.cpu_count() of the machine

\* progress.py:107  self.update_interval = 0.5
UpdateInterval == 5

Min(a, b) == IF a < b THEN a ELSE b

----------------------------------------------------------------------------
\* Small input sets.

NoPath == <<"", "">>
BareEntry(p) == [pair |-> FALSE, input |-> p, output |-> NoPath]
PairEntry(p, o) == [pair |-> TRUE, input |-> p, output |-> o]

\* The `files` arguments tried: bare inputs that share or do not share a base
\* name, explicit pairs, the empty list.
X1 == BareEntry(<<"d1", "x">>)
X2 == BareEntry(<<"d2", "x">>)       \* same base name as X1, other directory
Y1 == BareEntry(<<"d1", "y">>)
Z1 == BareEntry(<<"d1", "z">>)
P1 == PairEntry(<<"d1", "x">>, <<"o1", "x">>)

\* codec / preserve_alpha / progress_callback arguments.  The preset is 'web'
\* (codec vp9 in the PRESETS table).
Request(codec, preserve_alpha, callback) ==
    [codec |-> codec, preserve_alpha |-> preserve_alpha, callback |-> callback]
Call(fs, odir, limit, r) ==
    [files |-> fs, output_dir |-> odir, max_workers |-> limit, req |-> r]

\* The compress_batch calls tried: structural misconfigurations, requests
\* every job of which fails validation, one job, two jobs under limits 1 and
\* 2 with distinct and with colliding output paths, three jobs under limit 2.
\* (Two jobs with a callback running at once are tried by AsyncCalls.)
BatchCalls ==
    { Call(<<>>, "out", 2, Request("None", FALSE, TRUE)),
      Call(<<X1>>, "out", 0, Request("None", FALSE, TRUE)),
      Call(<<X1, P1>>, "None", 2, Request("None", FALSE, TRUE)),
      Call(<<P1, X1>>, "None", 2, Request("None", FALSE, TRUE)),
      Call(<<P1>>, "None", 1, Request("None", FALSE, TRUE)),
      Call(<<X1, Y1>>, "out", 2, Request("vp8", TRUE, TRUE)),
      Call(<<X1, Y1>>, "out", 2, Request("h264", FALSE, TRUE)),
      Call(<<X1, Y1>>, "out", 2, Request("vp9", TRUE, FALSE)),
      Call(<<X1, Y1>>, "out", 1, Request("None", FALSE, TRUE)),
      Call(<<X1, X2>>, "out", 2, Request("None", FALSE, FALSE)),
      Call(<<X1, Y1, Z1>>, "out", 2, Request("None", FALSE, FALSE)) }

Durations == {0, 2}                          \* VideoInfo.duration, seconds
BatchSamples == { [current_time |-> 1, speed |-> 2],
                  [current_time |-> 3, speed |-> 0] }

----------------------------------------------------------------------------
\* ProgressTracker (progress.py).

NoEta == [none |-> TRUE, num |-> 0, den |-> 1]
Eta(n, d) == [none |-> FALSE, num |-> n, den |-> d]       \* the quotient n / d

\* ProgressTracker.__init__
NewTracker(total_duration, filename, callback) ==
    [total_duration |-> total_duration, filename |-> filename,
     callback |-> callback, last_update_time |-> 0]

\* Faulty variant of Percentage: the quotient is not scaled to a percentage.
PercentageUnscaled(current_time, total_duration) ==
    Min(current_time \div total_duration, 100)

\* percentage = min((current_time / total_duration) * 100, 100.0)
Percentage(current_time, total_duration) ==
    Min((current_time * 100) \div total_duration, 100)

\* Faulty variant of EtaOf: the test of current_time is dropped.
EtaOfSpeedOnly(current_time, total_duration, speed) ==
    IF speed > 0
    THEN Eta(total_duration - current_time, speed)
    ELSE NoEta

\* eta = None; if speed > 0 and current_time > 0: eta = remaining / speed
EtaOf(current_time, total_duration, speed) ==
    IF speed > 0 /\ current_time > 0
    THEN Eta(total_duration - current_time, speed)
    ELSE NoEta

\* Faulty variant of Throttled: the throttle test is dropped.
ThrottledNever(t, nowT) == FALSE

\* The throttle test of update: now - last_update_time < update_interval
Throttled(t, nowT) == nowT - t.last_update_time < UpdateInterval

\* Faulty variant of TrackerUpdate: a throttled call restarts the window.
TrackerUpdateStampsThrottled(t, current_time, speed, nowT) ==
    IF Throttled(t, nowT)
    THEN [tracker |-> [t EXCEPT !.last_update_time = nowT],
          outcome |-> "throttled", event |-> <<>>]
    ELSE LET t2 == [t EXCEPT !.last_update_time = nowT] IN
         IF t.total_duration = 0
         THEN [tracker |-> t2, outcome |-> "raised", event |-> <<>>]
         ELSE IF ~t.callback
         THEN [tracker |-> t2, outcome |-> "silent", event |-> <<>>]
         ELSE [tracker |-> t2, outcome |-> "emitted",
               event |-> <<[kind |-> "update", filename |-> t.filename,
                            percentage |-> Percentage(current_time, t.total_duration),
                            current_time |-> current_time,
                            total_time |-> t.total_duration,
                            eta |-> EtaOf(current_time, t.total_duration, speed)]>>]

\* ProgressTracker.update called at wall-clock time nowT.  outcome:
\*   "throttled"  returned at the throttle test,
\*   "raised"     the percentage computation divided by zero,
\*   "silent"     passed the throttle, no callback set,
\*   "emitted"    the callback was called with `event`.
TrackerUpdate(t, current_time, speed, nowT) ==
    IF Throttled(t, nowT)
    THEN [tracker |-> t, outcome |-> "throttled", event |-> <<>>]
    ELSE LET t2 == [t EXCEPT !.last_update_time = nowT] IN
         IF t.total_duration = 0
         THEN [tracker |-> t2, outcome |-> "raised", event |-> <<>>]
         ELSE IF ~t.callback
         THEN [tracker |-> t2, outcome |-> "silent", event |-> <<>>]
         ELSE [tracker |-> t2, outcome |-> "emitted",
               event |-> <<[kind |-> "update", filename |-> t.filename,
                            percentage |-> Percentage(current_time, t.total_duration),
                            current_time |-> current_time,
                            total_time |-> t.total_duration,
                            eta |-> EtaOf(current_time, t.total_duration, speed)]>>]

\* Faulty variant of TrackerComplete: complete() calls nothing.
TrackerCompleteSilent(t) == <<>>

\* ProgressTracker.complete: the events the callback is called with.
TrackerComplete(t) ==
    IF t.callback
    THEN <<[kind |-> "complete", filename |-> t.filename, percentage |-> 100,
            current_time |-> t.total_duration, total_time |-> t.total_duration,
            eta |-> Eta(0, 1)]>>
    ELSE <<>>

----------------------------------------------------------------------------
\* compress_batch and the job runner.

Basename(p) == p[2]
NoTracker == NewTracker(0, "", FALSE)

\* An exception: its class and, for a CompressionFailedError that wraps
\* another exception ("Compression failed: ..."), the class of that one.
Exc(type, cause) == [type |-> type, cause |-> cause]
NoExc == Exc("None", "None")
NoResult == [job |-> 0, success |-> FALSE, input_path |-> NoPath,
             output_path |-> NoPath, error |-> NoExc]

\* Faulty variant of BuildFilePairs: only the first entry is tested.
BuildFilePairsFirstOnly(fs, odir) ==
    IF fs # <<>> /\ ~fs[1].pair /\ odir = "None"
    THEN [raised |-> TRUE, pairs |-> <<>>]
    ELSE [raised |-> FALSE,
          pairs |-> [i \in 1..Len(fs) |->
                       IF fs[i].pair
                       THEN [input |-> fs[i].input, output |-> fs[i].output]
                       ELSE [input |-> fs[i].input,
                             output |-> <<odir, Basename(fs[i].input)>>]]]

\* BatchCompressor._build_file_pairs: "ValueError" or the list of pairs.
BuildFilePairs(fs, odir) ==
    IF \E i \in 1..Len(fs) : ~fs[i].pair /\ odir = "None"
    THEN [raised |-> TRUE, pairs |-> <<>>]
    ELSE [raised |-> FALSE,
          pairs |-> [i \in 1..Len(fs) |->
                       IF fs[i].pair
                       THEN [input |-> fs[i].input, output |-> fs[i].output]
                       ELSE [input |-> fs[i].input,
                             output |-> <<odir, Basename(fs[i].input)>>]]]

\* Faulty variant of FailedResult: the failed result is built with empty paths.
FailedResultNoPath(j, input_path, output_path, e) ==
    [job |-> j, success |-> FALSE, input_path |-> NoPath,
     output_path |-> NoPath, error |-> e]

\* CompressionResult(success=False, input_path=..., output_path=..., error=str(e))
\* `job` names the future the result was set on.
FailedResult(j, input_path, output_path, e) ==
    [job |-> j, success |-> FALSE, input_path |-> input_path,
     output_path |-> output_path, error |-> e]

\* CompressionResult(success=True, ...) built by compress
SuccessResult(j, input_path, output_path) ==
    [job |-> j, success |-> TRUE, input_path |-> input_path,
     output_path |-> output_path, error |-> NoExc]

N == Len(file_pairs)
Jobs == 1..N
InCompress(j) == job[j].pc \in {"setup", "spawn", "read", "complete", "classify",
                                "size", "getsize", "cleanup"}
\* A worker thread is busy from taking the work item until the future is set.
Busy(j) == InCompress(j) \/ job[j].pc \in {"returned", "raised"}
Exited(j) == job[j].proc \in {"exit0", "exit1"}

NewJob ==
    [pc |-> "none", proc |-> "none", tracker |-> NoTracker, updates |-> 0,
     return_code |-> "unset", exc |-> NoExc, result |-> NoResult]

BatchInit ==
    /\ \E c \in BatchCalls :
         /\ files = c.files
         /\ output_dir = c.output_dir
         /\ max_workers = c.max_workers
         /\ req = c.req
    /\ mpc = "start"
    /\ file_pairs = <<>>
    /\ submitted = 0
    /\ queue = <<>>
    /\ numThreads = 0
    /\ idleSem = 0
    /\ job = <<>>
    /\ waiter = <<>>
    /\ early = {}
    /\ yielded = {}
    /\ results = <<>>
    /\ disk = {}
    /\ presetCodec = "vp9"
    /\ now = StartClock
    /\ events = <<>>
    /\ finishOrder = <<>>

\* compress_batch lines 66-72: build the pairs, create the executor.
BatchStart ==
    /\ mpc = "start"
    /\ LET b == BuildFilePairs(files, output_dir) IN
         IF b.raised \/ max_workers <= 0
         THEN /\ mpc' = "raised"
              /\ UNCHANGED <<file_pairs, job, events>>
         ELSE /\ mpc' = "submit"
              /\ file_pairs' = b.pairs
              /\ job' = [i \in 1..Len(b.pairs) |-> NewJob]
              /\ events' = [i \in 1..Len(b.pairs) |-> <<>>]
    /\ UNCHANGED nonBatchVars
    /\ UNCHANGED <<finishOrder, files, output_dir, max_workers, req, submitted, queue, numThreads,
                   idleSem, waiter, early, yielded, results, disk, presetCodec, now>>

\* Faulty variant of AdjustThreadCount: a thread is started whatever the limit.
AdjustThreadCountNoLimit(n, idle, limit) ==
    IF idle > 0 THEN n ELSE n + 1

\* ThreadPoolExecutor(max_workers=self.max_workers), on submit: the number of
\* worker threads after the executor has adjusted it.  No thread is started
\* when an idle one is counted, nor when the limit is reached.
AdjustThreadCount(n, idle, limit) ==
    IF idle > 0 THEN n ELSE IF n < limit THEN n + 1 ELSE n

\* executor.submit (lines 75-86): queue the work item, adjust the threads.
Submit ==
    /\ mpc = "submit"
    /\ submitted < N
    /\ LET j == submitted + 1 IN
         /\ job' = [job EXCEPT ![j].pc = "queued"]
         /\ queue' = Append(queue, j)
         /\ submitted' = j
    /\ numThreads' = AdjustThreadCount(numThreads, idleSem, max_workers)
    /\ idleSem' = IF idleSem > 0 THEN idleSem - 1 ELSE idleSem
    /\ UNCHANGED nonBatchVars
    /\ UNCHANGED <<finishOrder, files, output_dir, max_workers, req, mpc, file_pairs, waiter, early,
                   yielded, results, disk, presetCodec, now, events>>

\* as_completed(future_to_file) is entered (line 89): the futures already
\* finished are noted, the others report to the waiter from now on.
EnterAsCompleted ==
    /\ mpc = "submit"
    /\ submitted = N
    /\ mpc' = "collect"
    /\ early' = {j \in Jobs : job[j].pc = "done"}
    /\ UNCHANGED nonBatchVars
    /\ UNCHANGED <<finishOrder, files, output_dir, max_workers, req, file_pairs, submitted, queue,
                   numThreads, idleSem, job, waiter, yielded, results, disk,
                   presetCodec, now, events>>

\* Faulty variant of CatchesException: only CompressionFailedError is caught.
CatchesCompressionFailedOnly(e) == e.type = "CompressionFailedError"

\* `except Exception` (lines 94 and 191): every exception class of the model
\* derives from Exception.
CatchesException(e) == TRUE

\* future.result() of job j and what is appended for it, lines 90-101.
Collected(j) ==
    IF job[j].exc = NoExc
    THEN job[j].result
    ELSE FailedResult(j, file_pairs[j].input, file_pairs[j].output, job[j].exc)

\* future.result() raises an exception the handler of line 94 does not catch.
Escapes(j) == job[j].exc # NoExc /\ ~CatchesException(job[j].exc)

\* One iteration of the collecting loop (lines 89-101): the futures finished
\* early come first in no fixed order, then the others as they finish.
Collect ==
    /\ mpc = "collect"
    /\ \/ \E j \in early \ yielded :
            /\ yielded' = yielded \cup {j}
            /\ results' = IF Escapes(j) THEN results ELSE Append(results, Collected(j))
            /\ mpc' = IF Escapes(j) THEN "raised" ELSE mpc
            /\ UNCHANGED waiter
       \/ /\ early \subseteq yielded
          /\ waiter # <<>>
          /\ LET j == Head(waiter) IN
               /\ yielded' = yielded \cup {j}
               /\ results' = IF Escapes(j) THEN results ELSE Append(results, Collected(j))
               /\ mpc' = IF Escapes(j) THEN "raised" ELSE mpc
          /\ waiter' = Tail(waiter)
    /\ UNCHANGED nonBatchVars
    /\ UNCHANGED <<finishOrder, files, output_dir, max_workers, req, file_pairs, submitted, queue,
                   numThreads, idleSem, job, early, disk, presetCodec, now, events>>

\* Every future has been yielded: the executor is shut down, line 103 returns.
BatchReturn ==
    /\ mpc = "collect"
    /\ yielded = Jobs
    /\ mpc' = "returned"
    /\ UNCHANGED nonBatchVars
    /\ UNCHANGED <<finishOrder, files, output_dir, max_workers, req, file_pairs, submitted, queue,
                   numThreads, idleSem, job, waiter, early, yielded, results, disk,
                   presetCodec, now, events>>

----------------------------------------------------------------------------
\* One job: _compress_single -> VideoCompressor.compress -> _run_ffmpeg.

mainVars == <<files, output_dir, max_workers, req, mpc, file_pairs, submitted,
              early, yielded, results>>

\* Faulty variant of StartJob: a worker takes any work item of the queue.
StartJobAnyQueued(j) ==
    /\ \E i \in 1..Len(queue) :
         /\ queue[i] = j
         /\ queue' = SubSeq(queue, 1, i - 1) \o SubSeq(queue, i + 1, Len(queue))
    /\ Cardinality({k \in Jobs : Busy(k)}) < numThreads
    /\ job' = [job EXCEPT ![j].pc = "setup"]
    /\ UNCHANGED nonBatchVars
    /\ UNCHANGED <<mainVars, finishOrder, numThreads, idleSem, waiter, disk, presetCodec, now, events>>

\* A worker thread takes the next work item of the queue.
StartJob(j) ==
    /\ queue # <<>> /\ Head(queue) = j
    /\ Cardinality({k \in Jobs : Busy(k)}) < numThreads
    /\ queue' = Tail(queue)
    /\ job' = [job EXCEPT ![j].pc = "setup"]
    /\ UNCHANGED nonBatchVars
    /\ UNCHANGED <<mainVars, finishOrder, numThreads, idleSem, waiter, disk, presetCodec, now, events>>

\* The codec the shared preset object holds after lines 133-136.
CodecAfterOverride(codec, current) ==
    IF codec # "None" /\ codec \in {"vp8", "vp9"} THEN codec ELSE current

\* Faulty variant of RaiseInSetup: the encoder is started before the check.
RaiseInSetupSpawned(j, e) ==
    job' = [job EXCEPT ![j].pc = "raised", ![j].exc = Exc(e, e), ![j].proc = "running"]

\* compress raises e before its try block is entered.
RaiseInSetup(j, e) == job' = [job EXCEPT ![j].pc = "raised", ![j].exc = Exc(e, e)]

\* compress lines 125-144, everything before the try block: validation,
\* preset and codec resolution, the alpha check, the metadata probe (which
\* raises when ffprobe is not found or the file is no video).  An exception
\* here leaves compress at once.
Setup(j) ==
    /\ job[j].pc = "setup"
    /\ \E v \in {"ok", "InvalidInputFileError", "InvalidOutputPathError"},
          probe \in {"ok", "InvalidInputFileError", "FFmpegNotFoundError"} :
         IF v # "ok"
         THEN RaiseInSetup(j, v) /\ UNCHANGED presetCodec
         ELSE IF req.codec # "None" /\ req.codec \notin {"vp8", "vp9"}
         THEN RaiseInSetup(j, "InvalidCodecError") /\ UNCHANGED presetCodec
         ELSE /\ presetCodec' = CodecAfterOverride(req.codec, presetCodec)
              /\ IF req.preserve_alpha /\ presetCodec' # "vp9"
                 THEN RaiseInSetup(j, "AlphaChannelNotSupportedError")
                 ELSE IF probe # "ok"
                 THEN RaiseInSetup(j, probe)
                 ELSE job' = [job EXCEPT ![j].pc = "spawn"]
    /\ UNCHANGED nonBatchVars
    /\ UNCHANGED <<mainVars, finishOrder, queue, numThreads, idleSem, waiter, disk, now, events>>

\* compress lines 146-163 and _run_ffmpeg lines 320-337: build the command,
\* create the tracker (with the probed duration) when a callback was given,
\* start the encoder.  Popen may raise; that is inside the try block.
Spawn(j) ==
    /\ job[j].pc = "spawn"
    /\ \E ok \in BOOLEAN, d \in Durations :
         /\ req.callback \/ d = 0
         /\ LET t == IF req.callback
                     THEN NewTracker(d, Basename(file_pairs[j].input), TRUE)
                     ELSE NoTracker IN
              IF ok
              THEN job' = [job EXCEPT ![j].pc = "read", ![j].proc = "running",
                                      ![j].tracker = t]
              ELSE job' = [job EXCEPT ![j].pc = "cleanup", ![j].tracker = t,
                                      ![j].exc = Exc("OSError", "OSError")]
    /\ UNCHANGED nonBatchVars
    /\ UNCHANGED <<mainVars, finishOrder, queue, numThreads, idleSem, waiter, disk, presetCodec,
                   now, events>>

\* The encoder process (external): it creates or overwrites its output file
\* and exits with some code.  It is not bound to the job that started it.
ProcWrite(j) ==
    /\ job[j].proc = "running"
    /\ file_pairs[j].output \notin disk
    /\ disk' = disk \cup {file_pairs[j].output}
    /\ UNCHANGED nonBatchVars
    /\ UNCHANGED <<mainVars, finishOrder, queue, numThreads, idleSem, job, waiter, presetCodec,
                   now, events>>

ProcExit(j) ==
    /\ job[j].proc = "running"
    /\ \E code \in {"exit0", "exit1"} : job' = [job EXCEPT ![j].proc = code]
    /\ UNCHANGED nonBatchVars
    /\ UNCHANGED <<mainVars, finishOrder, queue, numThreads, idleSem, waiter, disk, presetCodec,
                   now, events>>

\* The job leaves _run_ffmpeg with exception e raised inside the try block.
RaiseInRun(jb, e) == [jb EXCEPT !.pc = "cleanup", !.exc = Exc(e, e)]

\* _run_ffmpeg lines 340-355: readline returned a progress line, it is parsed
\* into a sample and given to tracker.update, which reads the clock.  (Any
\* other line, and any line when there is no tracker, changes nothing.)
ReadLine(j) ==
    /\ job[j].pc = "read"
    /\ job[j].tracker.callback
    /\ job[j].updates < MaxLines
    /\ \E smp \in BatchSamples, d \in {0, UpdateInterval}, sink \in {"ok", "raise"} :
         /\ now + d <= StartClock + MaxElapsed
         /\ now' = now + d
         /\ LET u == TrackerUpdate(job[j].tracker, smp.current_time, smp.speed, now')
                jb == [job[j] EXCEPT !.updates = @ + 1, !.tracker = u.tracker]
            IN  CASE u.outcome = "throttled" ->
                       /\ sink = "ok"
                       /\ job' = [job EXCEPT ![j] = jb]
                       /\ UNCHANGED events
                  [] u.outcome = "raised" ->
                       /\ sink = "ok"
                       /\ job' = [job EXCEPT ![j] = RaiseInRun(jb, "ZeroDivisionError")]
                       /\ UNCHANGED events
                  [] u.outcome = "emitted" ->
                       /\ events' = [events EXCEPT ![j] = @ \o u.event]
                       /\ job' = [job EXCEPT ![j] =
                                    IF sink = "ok" THEN jb
                                    ELSE RaiseInRun(jb, "CallbackError")]
    /\ UNCHANGED nonBatchVars
    /\ UNCHANGED <<mainVars, finishOrder, queue, numThreads, idleSem, waiter, disk, presetCodec>>

\* Faulty variant of ReadEOF: the loop is left on `if process.poll():`, which
\* an exit code of 0 does not pass.
ReadEOFTruthyPoll(j) ==
    /\ job[j].pc = "read"
    /\ job[j].proc = "exit1"
    /\ job' = [job EXCEPT ![j].pc = "complete", ![j].return_code = job[j].proc]
    /\ UNCHANGED nonBatchVars
    /\ UNCHANGED <<mainVars, finishOrder, queue, numThreads, idleSem, waiter, disk,
                   presetCodec, now, events>>

\* Lines 343-345 and 358: the stream is at its end and the process has
\* exited; the loop is left and wait() returns the exit code.
ReadEOF(j) ==
    /\ job[j].pc = "read"
    /\ Exited(j)
    /\ job' = [job EXCEPT ![j].pc = "complete", ![j].return_code = job[j].proc]
    /\ UNCHANGED nonBatchVars
    /\ UNCHANGED <<mainVars, finishOrder, queue, numThreads, idleSem, waiter, disk, presetCodec,
                   now, events>>

\* Faulty variant of Complete: complete() is called inside the read loop.
CompleteInsideLoop(j) ==
    /\ job[j].pc = "complete"
    /\ events' = [events EXCEPT ![j] = @ \o TrackerComplete(job[j].tracker)]
    /\ \E sink \in {"ok", "raise"} :
         /\ job[j].tracker.callback \/ sink = "ok"
         /\ job' = [job EXCEPT ![j] =
                      IF sink = "ok" THEN [@ EXCEPT !.pc = "read"]
                      ELSE RaiseInRun(@, "CallbackError")]
    /\ UNCHANGED nonBatchVars
    /\ UNCHANGED <<mainVars, finishOrder, queue, numThreads, idleSem, waiter, disk, presetCodec, now>>

\* Lines 361-362: tracker.complete() when there is a tracker.
Complete(j) ==
    /\ job[j].pc = "complete"
    /\ events' = [events EXCEPT ![j] = @ \o TrackerComplete(job[j].tracker)]
    /\ \E sink \in {"ok", "raise"} :
         /\ job[j].tracker.callback \/ sink = "ok"
         /\ job' = [job EXCEPT ![j] =
                      IF sink = "ok" THEN [@ EXCEPT !.pc = "classify"]
                      ELSE RaiseInRun(@, "CallbackError")]
    /\ UNCHANGED nonBatchVars
    /\ UNCHANGED <<mainVars, finishOrder, queue, numThreads, idleSem, waiter, disk, presetCodec, now>>

\* Faulty variant of Classify: the return code is not looked at.
ClassifyIgnoresCode(j) ==
    /\ job[j].pc = "classify"
    /\ job' = [job EXCEPT ![j].pc = "size"]
    /\ UNCHANGED nonBatchVars
    /\ UNCHANGED <<mainVars, finishOrder, queue, numThreads, idleSem, waiter, disk, presetCodec,
                   now, events>>

\* Lines 365-369: a non-zero return code raises CompressionFailedError.
Classify(j) ==
    /\ job[j].pc = "classify"
    /\ job' = [job EXCEPT ![j] =
                 IF @.return_code = "exit0" THEN [@ EXCEPT !.pc = "size"]
                 ELSE RaiseInRun(@, "CompressionFailedError")]
    /\ UNCHANGED nonBatchVars
    /\ UNCHANGED <<mainVars, finishOrder, queue, numThreads, idleSem, waiter, disk, presetCodec,
                   now, events>>

\* compress line 166, get_file_size_mb line 215: os.path.exists(output_path).
\* No file: the size is 0.0 and compress returns the result (lines 167-177).
SizeExists(j) ==
    /\ job[j].pc = "size"
    /\ IF file_pairs[j].output \in disk
       THEN job' = [job EXCEPT ![j].pc = "getsize"]
       ELSE job' = [job EXCEPT ![j].pc = "returned",
                      ![j].result = SuccessResult(j, file_pairs[j].input,
                                                  file_pairs[j].output)]
    /\ UNCHANGED nonBatchVars
    /\ UNCHANGED <<mainVars, finishOrder, queue, numThreads, idleSem, waiter, disk, presetCodec,
                   now, events>>

\* get_file_size_mb line 217: os.path.getsize(path) raises when the file has
\* gone since the test of line 215; else compress returns (lines 167-177).
GetSize(j) ==
    /\ job[j].pc = "getsize"
    /\ job' = [job EXCEPT ![j] =
                 IF file_pairs[j].output \in disk
                 THEN [@ EXCEPT !.pc = "returned",
                                !.result = SuccessResult(j, file_pairs[j].input,
                                                         file_pairs[j].output)]
                 ELSE RaiseInRun(@, "FileNotFoundError")]
    /\ UNCHANGED nonBatchVars
    /\ UNCHANGED <<mainVars, finishOrder, queue, numThreads, idleSem, waiter, disk, presetCodec,
                   now, events>>

\* Faulty variant of Wrapped: the exception is raised again as it is.
WrappedNot(e) == e

\* compress lines 187-190: a CompressionFailedError is raised again, any
\* other exception e is replaced by CompressionFailedError("Compression failed: e").
Wrapped(e) == Exc("CompressionFailedError", e.cause)

\* Faulty variant of RemoveCatches: the handler of os.remove catches nothing.
RemoveCatchesNothing(e) == FALSE

\* `except OSError: pass` (lines 184-185); PermissionError is an OSError.
RemoveCatches(e) == e \in {"OSError", "PermissionError"}

\* compress lines 179-190: remove the output file if there is one (os.remove
\* may fail, and then leaves the file), then raise CompressionFailedError.
Cleanup(j) ==
    /\ job[j].pc = "cleanup"
    /\ \E rm \in {"ok", "PermissionError"} :
         /\ rm = "ok" \/ file_pairs[j].output \in disk
         /\ disk' = IF rm = "ok" THEN disk \ {file_pairs[j].output} ELSE disk
         /\ job' = [job EXCEPT ![j].pc = "raised",
                               ![j].exc = IF rm = "ok" \/ RemoveCatches(rm)
                                          THEN Wrapped(@) ELSE Exc(rm, rm)]
    /\ UNCHANGED nonBatchVars
    /\ UNCHANGED <<mainVars, finishOrder, queue, numThreads, idleSem, waiter, presetCodec, now, events>>

\* _compress_single lines 181-197: what the work item returns.
SingleResult(j) ==
    IF job[j].pc = "returned"
    THEN job[j].result
    ELSE FailedResult(j, file_pairs[j].input, file_pairs[j].output, job[j].exc)

\* The work item ends: the future is set, the waiter of as_completed is
\* told, the worker thread counts itself idle.
SingleDone(j) ==
    /\ job[j].pc \in {"returned", "raised"}
    /\ job' = IF job[j].pc = "raised" /\ ~CatchesException(job[j].exc)
              THEN [job EXCEPT ![j].pc = "done"]
              ELSE [job EXCEPT ![j].pc = "done", ![j].result = SingleResult(j),
                               ![j].exc = NoExc]
    /\ waiter' = IF mpc = "collect" THEN Append(waiter, j) ELSE waiter
    /\ finishOrder' = Append(finishOrder, j)
    /\ idleSem' = idleSem + 1
    /\ UNCHANGED nonBatchVars
    /\ UNCHANGED <<mainVars, queue, numThreads, disk, presetCodec, now, events>>

JobStep(j) ==
    \/ StartJob(j) \/ Setup(j) \/ Spawn(j) \/ ProcWrite(j) \/ ProcExit(j)
    \/ ReadLine(j) \/ ReadEOF(j) \/ Complete(j) \/ Classify(j)
    \/ SizeExists(j) \/ GetSize(j) \/ Cleanup(j) \/ SingleDone(j)

BatchNext ==
    \/ BatchStart \/ Submit \/ EnterAsCompleted \/ Collect \/ BatchReturn
    \/ \E j \in Jobs : JobStep(j)

----------------------------------------------------------------------------
\* BatchProgress (batch.py).  file_progress is a function from the file names
\* recorded so far to the last percentage of each.

EmptyMap == [k \in {} |-> 0]

\* BatchProgress.__init__
NewBatchProgress(total_files) ==
    [total_files |-> total_files, completed_files |-> 0, file_progress |-> EmptyMap]

\* self.file_progress.get(filename, 0.0)
GetProgress(fp, filename) == IF filename \in DOMAIN fp THEN fp[filename] ELSE 0

\* self.file_progress[filename] = percentage
SetProgress(fp, filename, percentage) ==
    [k \in DOMAIN fp \cup {filename} |-> IF k = filename THEN percentage ELSE fp[k]]

\* The test of line 263: the file "just completed".
JustCompleted(old_percentage, percentage) == old_percentage < 100 /\ percentage >= 100

\* BatchProgress.update_file_progress run without interruption.
UpdateFileProgress(b, filename, percentage) ==
    [b EXCEPT !.file_progress = SetProgress(@, filename, percentage),
              !.completed_files =
                  IF JustCompleted(GetProgress(b.file_progress, filename), percentage)
                  THEN @ + 1 ELSE @]

RECURSIVE SumValues(_)
\* sum(self.file_progress.values())
SumValues(fp) ==
    IF DOMAIN fp = {} THEN 0
    ELSE LET k == CHOOSE x \in DOMAIN fp : TRUE IN
         fp[k] + SumValues([x \in DOMAIN fp \ {k} |-> fp[x]])

\* BatchProgress.overall_percentage: 0.0 for an empty map, otherwise the
\* quotient total_progress / self.total_files, kept as numerator and
\* denominator; a division by zero raises ZeroDivisionError.
OverallPercentage(b) ==
    IF DOMAIN b.file_progress = {}
    THEN [raised |-> "None", num |-> 0, den |-> 1]
    ELSE IF b.total_files = 0
    THEN [raised |-> "ZeroDivisionError", num |-> 0, den |-> 1]
    ELSE [raised |-> "None", num |-> SumValues(b.file_progress),
          den |-> b.total_files]

----------------------------------------------------------------------------
\* Presets (presets.py) and the command builder (compressor.py).

\* max_resolution: None or a (width, height) tuple
NoCap == [none |-> TRUE, width |-> 0, height |-> 0]
Cap(w, h) == [none |-> FALSE, width |-> w, height |-> h]

\* An optional integer keyword (crf=..., speed=...)
NoInt == [none |-> TRUE, val |-> 0]
SomeInt(v) == [none |-> FALSE, val |-> v]

\* CompressionPreset(...): the fields the command builder reads.
CompressionPreset(codec, video_bitrate, audio_bitrate, crf, speed, max_resolution) ==
    [codec |-> codec, video_bitrate |-> video_bitrate, audio_bitrate |-> audio_bitrate,
     crf |-> crf, speed |-> speed, max_resolution |-> max_resolution,
     audio_codec |-> "libopus"]

\* Three entries of the built-in table PRESETS, as the module defines them.
PresetNames == {"web", "archive", "vp8-legacy"}
PRESETS ==
    [n \in PresetNames |->
       CASE n = "web" -> CompressionPreset("vp9", "1M", "128k", 31, 4, Cap(1920, 1080))
         [] n = "archive" -> CompressionPreset("vp9", "3M", "192k", 20, 1, NoCap)
         [] n = "vp8-legacy" -> CompressionPreset("vp8", "1M", "128k", 10, 3, Cap(1920, 1080))]

\* **custom_options: the keywords _build_command looks up.
Options(video_bitrate, crf, speed, cap_given, max_resolution, audio_bitrate) ==
    [video_bitrate |-> video_bitrate, crf |-> crf, speed |-> speed,
     cap_given |-> cap_given, max_resolution |-> max_resolution,
     audio_bitrate |-> audio_bitrate]
NoOptions == Options("None", NoInt, NoInt, FALSE, NoCap, "None")

\* custom_options.get(key, default)
GetStr(given, default) == IF given = "None" THEN default ELSE given
GetInt(given, default) == IF given.none THEN default ELSE given.val

\* VideoInfo: the fields the command builder reads.
VideoInfo(width, height) == [width |-> width, height |-> height]

\* Faulty variant of ScaleFilter: the two bounds are exchanged.
ScaleFilterSwapped(max_width, max_height) ==
    "scale=min(" \o ToString(max_height) \o "\\,iw):min(" \o ToString(max_width)
        \o "\\,ih):force_original_aspect_ratio=decrease"

\* The scale filter of lines 276-280.
ScaleFilter(max_width, max_height) ==
    "scale=min(" \o ToString(max_width) \o "\\,iw):min(" \o ToString(max_height)
        \o "\\,ih):force_original_aspect_ratio=decrease"

\* Faulty variant of BuildCommand: the row-mt hint is emitted for both codecs.
BuildCommandRowMtAlways(input_path, output_path, preset, preserve_alpha, video_info, options) ==
    LET max_res == IF options.cap_given THEN options.max_resolution
                   ELSE preset.max_resolution
    IN  <<"ffmpeg", "-i", input_path>>
        \o (IF preset.codec = "vp9" THEN <<"-c:v", "libvpx-vp9">>
            ELSE <<"-c:v", "libvpx">>)
        \o (IF preserve_alpha
            THEN <<"-pix_fmt", "yuva420p", "-auto-alt-ref", "0",
                   "-metadata:s:v:0", "alpha_mode=1">>
            ELSE <<>>)
        \o <<"-b:v", GetStr(options.video_bitrate, preset.video_bitrate),
             "-crf", ToString(GetInt(options.crf, preset.crf))>>
        \o (IF preset.codec = "vp9"
            THEN <<"-speed", ToString(GetInt(options.speed, preset.speed))>>
            ELSE <<"-cpu-used", ToString(GetInt(options.speed, preset.speed))>>)
        \o (IF ~max_res.none /\ (video_info.width > max_res.width
                                 \/ video_info.height > max_res.height)
            THEN <<"-vf", ScaleFilter(max_res.width, max_res.height)>>
            ELSE <<>>)
        \o <<"-row-mt", "1">>
        \o (IF preset.audio_codec # "None"
            THEN <<"-c:a", preset.audio_codec,
                   "-b:a", GetStr(options.audio_bitrate, preset.audio_bitrate)>>
            ELSE <<>>)
        \o <<"-y", output_path>>

\* VideoCompressor._build_command: the argument list.
BuildCommand(input_path, output_path, preset, preserve_alpha, video_info, options) ==
    LET max_res == IF options.cap_given THEN options.max_resolution
                   ELSE preset.max_resolution
    IN  <<"ffmpeg", "-i", input_path>>
        \o (IF preset.codec = "vp9" THEN <<"-c:v", "libvpx-vp9">>
            ELSE <<"-c:v", "libvpx">>)
        \o (IF preserve_alpha
            THEN <<"-pix_fmt", "yuva420p", "-auto-alt-ref", "0",
                   "-metadata:s:v:0", "alpha_mode=1">>
            ELSE <<>>)
        \o <<"-b:v", GetStr(options.video_bitrate, preset.video_bitrate),
             "-crf", ToString(GetInt(options.crf, preset.crf))>>
        \o (IF preset.codec = "vp9"
            THEN <<"-speed", ToString(GetInt(options.speed, preset.speed))>>
            ELSE <<"-cpu-used", ToString(GetInt(options.speed, preset.speed))>>)
        \o (IF ~max_res.none /\ (video_info.width > max_res.width
                                 \/ video_info.height > max_res.height)
            THEN <<"-vf", ScaleFilter(max_res.width, max_res.height)>>
            ELSE <<>>)
        \o (IF preset.codec = "vp9" THEN <<"-row-mt", "1">> ELSE <<>>)
        \o (IF preset.audio_codec # "None"
            THEN <<"-c:a", preset.audio_codec,
                   "-b:a", GetStr(options.audio_bitrate, preset.audio_bitrate)>>
            ELSE <<>>)
        \o <<"-y", output_path>>

\* The arguments of one compress call.
CompressRequest(preset, codec, preserve_alpha, options) ==
    [input_path |-> "in.mp4", output_path |-> "out.webm", preset |-> preset,
     codec |-> codec, preserve_alpha |-> preserve_alpha, options |-> options]

\* compress lines 125-163 run on the table tbl: the table afterwards, how the
\* call went on ("built", or the exception raised before the try block) and
\* the command built.  `valid` is what the two path validations answer,
\* `probeOk` whether VideoInfo.from_file returned.
CompressSetup(tbl, r, video_info, valid, probeOk) ==
    IF valid # "ok"
    THEN [presets |-> tbl, outcome |-> valid, cmd |-> <<>>]
    ELSE IF r.preset \notin DOMAIN tbl
    THEN [presets |-> tbl, outcome |-> "InvalidPresetError", cmd |-> <<>>]
    ELSE IF r.codec # "None" /\ r.codec \notin {"vp8", "vp9"}
    THEN [presets |-> tbl, outcome |-> "InvalidCodecError", cmd |-> <<>>]
    ELSE LET tbl2 == [tbl EXCEPT ![r.preset].codec = CodecAfterOverride(r.codec, @)]
         IN  IF r.preserve_alpha /\ tbl2[r.preset].codec # "vp9"
             THEN [presets |-> tbl2, outcome |-> "AlphaChannelNotSupportedError",
                   cmd |-> <<>>]
             ELSE IF ~probeOk
             THEN [presets |-> tbl2, outcome |-> "InvalidInputFileError", cmd |-> <<>>]
             ELSE [presets |-> tbl2, outcome |-> "built",
                   cmd |-> BuildCommand(r.input_path, r.output_path, tbl2[r.preset],
                                        r.preserve_alpha, video_info, r.options)]

----------------------------------------------------------------------------
\* FFmpegProgressParser (progress.py).  A line is a sequence of characters;
\* the model keeps the six places PROGRESS_PATTERN captures from, each as the
\* run of characters (none of them a blank, ':' or '=') found there:
\*   frame=<frame> fps=<fps> ... time=<hours>:<minutes>:<seconds> ... speed=<speed>
\* A line of any other shape has status = FALSE.  Numbers of seconds and
\* speeds are counted in hundredths.

Digits == {"0", "1", "2", "3", "4", "5", "6", "7", "8", "9"}
DigitVal(c) ==
    CASE c = "0" -> 0 [] c = "1" -> 1 [] c = "2" -> 2 [] c = "3" -> 3 [] c = "4" -> 4
      [] c = "5" -> 5 [] c = "6" -> 6 [] c = "7" -> 7 [] c = "8" -> 8 [] c = "9" -> 9

\* (\d+) up to the next literal of the pattern: the whole run is digits.
AllDigits(s) == s # <<>> /\ \A i \in 1..Len(s) : s[i] \in Digits

\* ([\d.]+) is greedy: the longest prefix of the run made of digits and dots.
ClassRun(s) ==
    LET n == CHOOSE k \in 0..Len(s) :
                 /\ \A i \in 1..k : s[i] \in Digits \cup {"."}
                 /\ k < Len(s) => s[k + 1] \notin Digits \cup {"."}
    IN  SubSeq(s, 1, n)

RECURSIVE IntOf(_)
\* int(text) of a run of digits
IntOf(s) == IF s = <<>> THEN 0 ELSE IntOf(SubSeq(s, 1, Len(s) - 1)) * 10 + DigitVal(s[Len(s)])

Dots(s) == {i \in 1..Len(s) : s[i] = "."}
\* float(text) of a run of digits and dots succeeds with at most one dot and
\* at least one digit; otherwise it raises ValueError.
FloatOk(s) == Cardinality(Dots(s)) <= 1 /\ Len(s) > Cardinality(Dots(s))
\* float(text) in hundredths (digits after the second decimal are dropped)
FloatOf(s) ==
    LET d == IF Dots(s) = {} THEN Len(s) + 1 ELSE CHOOSE i \in Dots(s) : TRUE
        frac == SubSeq(s, d + 1, Len(s))
        f1 == IF Len(frac) >= 1 THEN DigitVal(frac[1]) ELSE 0
        f2 == IF Len(frac) >= 2 THEN DigitVal(frac[2]) ELSE 0
    IN  IntOf(SubSeq(s, 1, d - 1)) * 100 + f1 * 10 + f2

Line(status, frame, fps, hours, minutes, seconds, speed) ==
    [status |-> status, frame |-> frame, fps |-> fps, hours |-> hours,
     minutes |-> minutes, seconds |-> seconds, speed |-> speed]

\* PROGRESS_PATTERN.search(line): whether it matches, and the six groups.
\* The speed group must be followed by the letter x.
PatternSearch(l) ==
    LET sp == ClassRun(l.speed) IN
    [matched |-> /\ l.status
                 /\ AllDigits(l.frame) /\ ClassRun(l.fps) # <<>>
                 /\ AllDigits(l.hours) /\ AllDigits(l.minutes)
                 /\ ClassRun(l.seconds) # <<>>
                 /\ sp # <<>> /\ Len(l.speed) > Len(sp) /\ l.speed[Len(sp) + 1] = "x",
     frame |-> l.frame, fps |-> ClassRun(l.fps), hours |-> l.hours,
     minutes |-> l.minutes, seconds |-> ClassRun(l.seconds), speed |-> sp]

\* Faulty variant of ParseCatches: ValueError is not caught.
ParseCatchesIndexErrorOnly(e) == e = "IndexError"

\* except (ValueError, IndexError)
ParseCatches(e) == e \in {"ValueError", "IndexError"}

NoSample == [kind |-> "None", frame |-> 0, fps |-> 0, current_time |-> 0, speed |-> 0]
RaisedInParse == [NoSample EXCEPT !.kind = "raised"]

\* FFmpegProgressParser.parse_progress
ParseProgress(l) ==
    LET m == PatternSearch(l) IN
    IF ~m.matched THEN NoSample
    ELSE LET e == IF ~AllDigits(m.frame) \/ ~FloatOk(m.fps) \/ ~AllDigits(m.hours)
                     \/ ~AllDigits(m.minutes) \/ ~FloatOk(m.seconds) \/ ~FloatOk(m.speed)
                  THEN "ValueError" ELSE "None"
         IN  IF e # "None"
             THEN IF ParseCatches(e) THEN NoSample ELSE RaisedInParse
             ELSE [kind |-> "sample", frame |-> IntOf(m.frame), fps |-> FloatOf(m.fps),
                   current_time |-> IntOf(m.hours) * 360000 + IntOf(m.minutes) * 6000
                                      + FloatOf(m.seconds),
                   speed |-> FloatOf(m.speed)]

----------------------------------------------------------------------------
\* The parts a specification does not drive stay as constructed.

TrackerIdle == tr = NoTracker /\ trLog = <<>> /\ trLast = "none"
BpIdle == bp = NewBatchProgress(0) /\ bpHist = <<>>
ConcIdle == cbp = NewBatchProgress(0) /\ cth = <<>>
NoCall == [request |-> CompressRequest("None", "None", FALSE, NoOptions),
           video_info |-> VideoInfo(0, 0), validated |-> FALSE, built |-> FALSE,
           outcome |-> "none",
           cmd |-> <<>>]
CmdIdle == presets = PRESETS /\ cmdRef = NoCall /\ cmdLast = NoCall
NoLine == Line(FALSE, <<>>, <<>>, <<>>, <<>>, <<>>, <<>>)
ParseIdle == pLine = NoLine /\ pOut = [NoSample EXCEPT !.kind = "idle"]
BatchIdle ==
    /\ files = <<>> /\ output_dir = "None" /\ max_workers = 0
    /\ req = Request("None", FALSE, FALSE)
    /\ mpc = "idle" /\ file_pairs = <<>> /\ submitted = 0 /\ queue = <<>>
    /\ numThreads = 0 /\ idleSem = 0 /\ job = <<>> /\ waiter = <<>> /\ early = {}
    /\ yielded = {} /\ results = <<>> /\ disk = {} /\ presetCodec = "vp9"
    /\ now = StartClock /\ events = <<>> /\ finishOrder = <<>>

\* compress_batch running its jobs on the executor's worker threads.
Init == BatchInit /\ TrackerIdle /\ BpIdle /\ ConcIdle /\ CmdIdle /\ ParseIdle
Next == BatchNext
Spec == Init /\ [][Next]_vars

----------------------------------------------------------------------------
\* One ProgressTracker with a callback, driven directly: update and complete
\* are called at wall-clock times that never decrease.

TrackerDurations == {0, 1, 2}
TrackerSamples == [current_time : (0 - 1)..3, speed : 0..1]
                      \cup { [current_time |-> 1, speed |-> 2] }
ClockSteps == {0, 4, 5, 6}

TrackerInit ==
    /\ \E d \in TrackerDurations : tr = NewTracker(d, "x", TRUE)
    /\ trLog = <<>>
    /\ trLast = "none"

\* tracker.update(current_time, speed), the clock having advanced by d.
TrUpdate ==
    /\ \E smp \in TrackerSamples, d \in ClockSteps :
         /\ now + d <= StartClock + MaxTrackerElapsed
         /\ now' = now + d
         /\ LET u == TrackerUpdate(tr, smp.current_time, smp.speed, now') IN
              /\ tr' = u.tracker
              /\ trLast' = u.outcome
              /\ trLog' = IF u.outcome = "emitted"
                          THEN Append(trLog, [event |-> u.event[1], at |-> now',
                                              speed |-> smp.speed])
                          ELSE trLog
    /\ UNCHANGED <<finishOrder, files, output_dir, max_workers, req, mpc, file_pairs, submitted, queue,
                   numThreads, idleSem, job, waiter, early, yielded, results, disk,
                   presetCodec, events, bpVars, concVars, cmdVars, parseVars>>

\* tracker.complete(), the clock having advanced by d.
TrComplete ==
    /\ Len(trLog) < MaxCalls
    /\ \E d \in ClockSteps :
         /\ now + d <= StartClock + MaxTrackerElapsed
         /\ now' = now + d
         /\ trLog' = Append(trLog, [event |-> TrackerComplete(tr)[1], at |-> now',
                                    speed |-> 0])
    /\ trLast' = "completed"
    /\ UNCHANGED <<finishOrder, files, output_dir, max_workers, req, mpc, file_pairs, submitted, queue,
                   numThreads, idleSem, job, waiter, early, yielded, results, disk,
                   presetCodec, events, tr, bpVars, concVars, cmdVars, parseVars>>

TrackerNext == TrUpdate \/ TrComplete
InitTracker == BatchIdle /\ TrackerInit /\ BpIdle /\ ConcIdle /\ CmdIdle /\ ParseIdle
SpecTracker == InitTracker /\ [][TrackerNext]_vars

----------------------------------------------------------------------------
\* One BatchProgress called sequentially, through update_file_progress.

FileNames == {"a", "b"}
Percentages == {0, 50, 100}
TotalFiles == 0..2

BpInit ==
    /\ \E n \in TotalFiles : bp = NewBatchProgress(n)
    /\ bpHist = <<>>

BpUpdate ==
    /\ Len(bpHist) < MaxCalls
    /\ \E f \in FileNames, p \in Percentages :
         /\ bp' = UpdateFileProgress(bp, f, p)
         /\ bpHist' = Append(bpHist, [filename |-> f, percentage |-> p])
    /\ UNCHANGED <<batchVars, trackerVars, concVars, cmdVars, parseVars>>

BpNext == BpUpdate
InitProgress == BatchIdle /\ TrackerIdle /\ BpInit /\ ConcIdle /\ CmdIdle /\ ParseIdle
SpecProgress == InitProgress /\ [][BpNext]_vars

----------------------------------------------------------------------------
\* One BatchProgress whose callback (create_callback) is called by the worker
\* threads of a batch, one thread per job, without any lock.  A thread can be
\* preempted between any two reads or writes of the shared object.

Threads == 1..2
\* The percentages the events of one job carry, in order.
EventLists == { <<100>>, <<50, 100>> }

NewThread(filename, todo) ==
    [pc |-> "idle", filename |-> filename, todo |-> todo, done |-> <<>>,
     percentage |-> 0, old_percentage |-> 0, loaded |-> 0]

ConcInit ==
    /\ cbp = NewBatchProgress(Cardinality(Threads))
    /\ \E f \in [Threads -> FileNames], l \in [Threads -> EventLists] :
         cth = [t \in Threads |-> NewThread(f[t], l[t])]

\* The tracker of thread t calls the callback with the next event (line 292).
CbCall(t) ==
    /\ cth[t].pc = "idle"
    /\ cth[t].todo # <<>>
    /\ cth' = [cth EXCEPT ![t].pc = "get", ![t].percentage = Head(cth[t].todo),
                          ![t].todo = Tail(cth[t].todo)]
    /\ UNCHANGED cbp
    /\ UNCHANGED <<batchVars, trackerVars, bpVars, cmdVars, parseVars>>

\* Line 259: old_percentage = self.file_progress.get(filename, 0.0)
CbGet(t) ==
    /\ cth[t].pc = "get"
    /\ cth' = [cth EXCEPT ![t].pc = "set",
                 ![t].old_percentage = GetProgress(cbp.file_progress, cth[t].filename)]
    /\ UNCHANGED cbp
    /\ UNCHANGED <<batchVars, trackerVars, bpVars, cmdVars, parseVars>>

\* Lines 260 and 263: store the percentage, test whether the file just completed.
CbSet(t) ==
    /\ cth[t].pc = "set"
    /\ cbp' = [cbp EXCEPT !.file_progress =
                              SetProgress(@, cth[t].filename, cth[t].percentage)]
    /\ cth' = [cth EXCEPT ![t].pc =
                 IF JustCompleted(cth[t].old_percentage, cth[t].percentage)
                 THEN "load" ELSE "print"]
    /\ UNCHANGED <<batchVars, trackerVars, bpVars, cmdVars, parseVars>>

\* Line 264, self.completed_files += 1: the attribute is loaded ...
CbLoad(t) ==
    /\ cth[t].pc = "load"
    /\ cth' = [cth EXCEPT ![t].pc = "store", ![t].loaded = cbp.completed_files]
    /\ UNCHANGED cbp
    /\ UNCHANGED <<batchVars, trackerVars, bpVars, cmdVars, parseVars>>

\* ... and the incremented value is stored.
CbStore(t) ==
    /\ cth[t].pc = "store"
    /\ cbp' = [cbp EXCEPT !.completed_files = cth[t].loaded + 1]
    /\ cth' = [cth EXCEPT ![t].pc = "print"]
    /\ UNCHANGED <<batchVars, trackerVars, bpVars, cmdVars, parseVars>>

\* Lines 293-297: the message is printed; the callback returns.
CbPrint(t) ==
    /\ cth[t].pc = "print"
    /\ cth' = [cth EXCEPT ![t].pc = "idle",
                 ![t].done = Append(@, [filename |-> cth[t].filename,
                                        percentage |-> cth[t].percentage])]
    /\ UNCHANGED cbp
    /\ UNCHANGED <<batchVars, trackerVars, bpVars, cmdVars, parseVars>>

ConcNext ==
    \E t \in Threads :
        CbCall(t) \/ CbGet(t) \/ CbSet(t) \/ CbLoad(t) \/ CbStore(t) \/ CbPrint(t)

InitConc == BatchIdle /\ TrackerIdle /\ BpIdle /\ ConcInit /\ CmdIdle /\ ParseIdle
SpecConc == InitConc /\ [][ConcNext]_vars

----------------------------------------------------------------------------
\* VideoCompressor.compress called several times, one call after the other, in
\* one process: every call works on the one module-level table PRESETS.

LightOptions == Options("2M", SomeInt(20), SomeInt(2), FALSE, NoCap, "None")
\* crf=64, speed=6 given as keywords
WideOptions == Options("None", SomeInt(64), SomeInt(6), FALSE, NoCap, "None")
SmallVideo == VideoInfo(1280, 720)
LargeVideo == VideoInfo(3840, 2160)
CapVideo == VideoInfo(1920, 1080)
TallVideo == VideoInfo(1080, 1920)
\* max_resolution=(640, 360) and max_resolution=None given as keywords
CapOption(max_resolution) == Options("None", NoInt, NoInt, TRUE, max_resolution, "None")

\* The compress calls tried, each with the metadata the probe reports: every
\* codec override and alpha flag on a vp9 and on a vp8 preset, keyword
\* overrides, sources above, at and below the resolution cap of the preset
\* or of the max_resolution keyword, crf and speed keywords beyond the codec's
\* range, an invalid codec, an unknown preset.
CompressCalls ==
    { [request |-> CompressRequest(p, c, a, NoOptions), video_info |-> SmallVideo] :
          p \in {"web", "vp8-legacy"}, c \in {"None", "vp8", "vp9"}, a \in BOOLEAN }
    \cup { [request |-> CompressRequest("web", "None", FALSE, LightOptions),
            video_info |-> SmallVideo],
           [request |-> CompressRequest("vp8-legacy", "None", TRUE, LightOptions),
            video_info |-> SmallVideo],
           [request |-> CompressRequest("web", "None", FALSE, NoOptions),
            video_info |-> LargeVideo],
           [request |-> CompressRequest("archive", "None", FALSE, NoOptions),
            video_info |-> LargeVideo],
           [request |-> CompressRequest("web", "None", FALSE, NoOptions),
            video_info |-> CapVideo],
           [request |-> CompressRequest("web", "None", FALSE, NoOptions),
            video_info |-> TallVideo],
           [request |-> CompressRequest("web", "None", FALSE, CapOption(Cap(640, 360))),
            video_info |-> SmallVideo],
           [request |-> CompressRequest("web", "None", FALSE, CapOption(NoCap)),
            video_info |-> LargeVideo],
           [request |-> CompressRequest("archive", "None", FALSE,
                                        CapOption(Cap(1920, 1080))),
            video_info |-> LargeVideo],
           [request |-> CompressRequest("web", "None", FALSE, WideOptions),
            video_info |-> SmallVideo],
           [request |-> CompressRequest("web", "h264", FALSE, NoOptions),
            video_info |-> SmallVideo],
           [request |-> CompressRequest("nope", "None", FALSE, NoOptions),
            video_info |-> SmallVideo] }

CmdInit == CmdIdle

\* One compress call, from validation to its return or its exception: the
\* encoder run ends well or not, whatever the command.
CompressCall ==
    /\ \E c \in CompressCalls, valid \in {"ok", "InvalidInputFileError"},
          probeOk \in BOOLEAN, run \in {"returned", "CompressionFailedError"} :
         /\ valid = "ok" \/ (probeOk /\ run = "returned")
         /\ probeOk \/ run = "returned"
         /\ LET s == CompressSetup(presets, c.request, c.video_info, valid, probeOk) IN
              /\ presets' = s.presets
              /\ cmdLast' = [request |-> c.request, video_info |-> c.video_info,
                             validated |-> valid = "ok",
                             built |-> s.outcome = "built",
                             outcome |-> IF s.outcome = "built" THEN run ELSE s.outcome,
                             cmd |-> s.cmd]
    /\ cmdRef' \in {cmdRef} \cup (IF cmdLast.built THEN {cmdLast} ELSE {})
    /\ UNCHANGED <<batchVars, trackerVars, bpVars, concVars, parseVars>>

CompressNext == CompressCall
InitCompress == BatchIdle /\ TrackerIdle /\ BpIdle /\ ConcIdle /\ CmdInit /\ ParseIdle
SpecCompress == InitCompress /\ [][CompressNext]_vars

----------------------------------------------------------------------------
\* compress_batch_async: every entry becomes a compress_async coroutine, which
\* hands VideoCompressor.compress to the event loop's default executor
\* (run_in_executor(None, ...)); the results are awaited as they complete.

\* The default executor is a ThreadPoolExecutor created without max_workers:
\* its limit is min(32, (os.cpu_count() or 1) + 4).
DefaultWorkers == Min(32, CpuCount + 4)

AsyncCalls ==
    { Call(<<X1, P1>>, "None", 2, Request("None", FALSE, FALSE)),
      Call(<<X1>>, "out", 0, Request("None", FALSE, FALSE)),
      Call(<<X1, Y1>>, "out", 1, Request("None", FALSE, FALSE)),
      Call(<<P1, Y1>>, "out", 2, Request("None", FALSE, TRUE)) }

AsyncInit ==
    /\ \E c \in AsyncCalls :
         /\ files = c.files
         /\ output_dir = c.output_dir
         /\ max_workers = c.max_workers
         /\ req = c.req
    /\ mpc = "astart"
    /\ file_pairs = <<>>
    /\ submitted = 0
    /\ queue = <<>>
    /\ numThreads = 0
    /\ idleSem = 0
    /\ job = <<>>
    /\ waiter = <<>>
    /\ early = {}
    /\ yielded = {}
    /\ results = <<>>
    /\ disk = {}
    /\ presetCodec = "vp9"
    /\ now = StartClock
    /\ events = <<>>
    /\ finishOrder = <<>>

\* Lines 123-138: build the pairs, create one coroutine per pair.
AsyncStart ==
    /\ mpc = "astart"
    /\ LET b == BuildFilePairs(files, output_dir) IN
         IF b.raised
         THEN /\ mpc' = "raised"
              /\ UNCHANGED <<file_pairs, job, events>>
         ELSE /\ mpc' = "asubmit"
              /\ file_pairs' = b.pairs
              /\ job' = [i \in 1..Len(b.pairs) |-> NewJob]
              /\ events' = [i \in 1..Len(b.pairs) |-> <<>>]
    /\ UNCHANGED nonBatchVars
    /\ UNCHANGED <<finishOrder, files, output_dir, max_workers, req, submitted, queue, numThreads,
                   idleSem, waiter, early, yielded, results, disk, presetCodec, now>>

\* asyncio.as_completed(tasks) schedules the coroutines (in no fixed order);
\* each one run by the loop reaches run_in_executor (compressor.py lines
\* 209-222), which submits its compress call to the default executor.
AsyncSubmit ==
    /\ mpc = "asubmit"
    /\ \E j \in Jobs :
         /\ job[j].pc = "none"
         /\ job' = [job EXCEPT ![j].pc = "queued"]
         /\ queue' = Append(queue, j)
    /\ submitted' = submitted + 1
    /\ numThreads' = AdjustThreadCount(numThreads, idleSem, DefaultWorkers)
    /\ idleSem' = IF idleSem > 0 THEN idleSem - 1 ELSE idleSem
    /\ UNCHANGED nonBatchVars
    /\ UNCHANGED <<finishOrder, files, output_dir, max_workers, req, mpc, file_pairs, waiter, early,
                   yielded, results, disk, presetCodec, now, events>>

\* Every coroutine has made its submit: the loop goes on to the completions.
AsyncAwait ==
    /\ mpc = "asubmit"
    /\ submitted = N
    /\ mpc' = "acollect"
    /\ UNCHANGED nonBatchVars
    /\ UNCHANGED <<finishOrder, files, output_dir, max_workers, req, file_pairs, submitted, queue,
                   numThreads, idleSem, job, waiter, early, yielded, results, disk,
                   presetCodec, now, events>>

\* The compress call of job j ends in its worker thread: the future holds the
\* result or the exception, and completes the awaiting task.
AsyncDone(j) ==
    /\ job[j].pc \in {"returned", "raised"}
    /\ job' = [job EXCEPT ![j].pc = "done"]
    /\ waiter' = Append(waiter, j)
    /\ finishOrder' = Append(finishOrder, j)
    /\ idleSem' = idleSem + 1
    /\ UNCHANGED nonBatchVars
    /\ UNCHANGED <<mainVars, queue, numThreads, disk, presetCodec, now, events>>

\* `await coro` of job j and what is appended for it, batch.py lines 142-153.
AsyncCollected(j) ==
    IF job[j].exc = NoExc
    THEN job[j].result
    ELSE FailedResult(j, NoPath, NoPath, job[j].exc)

\* One iteration of the loop over asyncio.as_completed (lines 142-153).
AsyncCollect ==
    /\ mpc = "acollect"
    /\ waiter # <<>>
    /\ LET j == Head(waiter) IN
         /\ yielded' = yielded \cup {j}
         /\ results' = IF Escapes(j) THEN results ELSE Append(results, AsyncCollected(j))
         /\ mpc' = IF Escapes(j) THEN "raised" ELSE mpc
    /\ waiter' = Tail(waiter)
    /\ UNCHANGED nonBatchVars
    /\ UNCHANGED <<finishOrder, files, output_dir, max_workers, req, file_pairs, submitted, queue,
                   numThreads, idleSem, job, early, disk, presetCodec, now, events>>

\* Line 155: return results.
AsyncReturn ==
    /\ mpc = "acollect"
    /\ yielded = Jobs
    /\ mpc' = "returned"
    /\ UNCHANGED nonBatchVars
    /\ UNCHANGED <<finishOrder, files, output_dir, max_workers, req, file_pairs, submitted, queue,
                   numThreads, idleSem, job, waiter, early, yielded, results, disk,
                   presetCodec, now, events>>

AsyncJobStep(j) ==
    \/ StartJob(j) \/ Setup(j) \/ Spawn(j) \/ ProcWrite(j) \/ ProcExit(j)
    \/ ReadLine(j) \/ ReadEOF(j) \/ Complete(j) \/ Classify(j)
    \/ SizeExists(j) \/ GetSize(j) \/ Cleanup(j) \/ AsyncDone(j)

AsyncNext ==
    \/ AsyncStart \/ AsyncSubmit \/ AsyncAwait \/ AsyncCollect \/ AsyncReturn
    \/ \E j \in Jobs : AsyncJobStep(j)

InitAsync == AsyncInit /\ TrackerIdle /\ BpIdle /\ ConcIdle /\ CmdIdle /\ ParseIdle
SpecAsync == InitAsync /\ [][AsyncNext]_vars

----------------------------------------------------------------------------
\* parse_progress called on one line after the other.

FrameRuns == { <<"1", "0">>, <<"1", "a">> }
FpsRuns == { <<"3", "0", ".", "0">>, <<".">>, <<"3", "0", "a">> }
HourRuns == { <<"0", "0">>, <<"0", "1">>, <<"-", "1">> }
MinuteRuns == { <<"0", "1">>, <<"5", "9">> }
SecondRuns == { <<"3", "0", ".", "5", "0">>, <<"1", ".", "2", ".", "3">>, <<"0", "5">> }
SpeedRuns == { <<"2", ".", "0", "x">>, <<"N", "/", "A">>, <<"2", ".", "0">>,
               <<"1", ".", ".", "x">>, <<"0", ".", "5", "x">> }

\* The lines tried: status lines with every combination of the runs above,
\* and a line that is no status line.
Lines ==
    { Line(TRUE, f, r, h, m, sec, sp) :
        f \in FrameRuns, r \in FpsRuns, h \in HourRuns, m \in MinuteRuns,
        sec \in SecondRuns, sp \in SpeedRuns }
    \cup { NoLine }

\* FFmpegProgressParser.parse_progress(line)
ParseLine ==
    /\ \E l \in Lines :
         /\ pLine' = l
         /\ pOut' = ParseProgress(l)
    /\ UNCHANGED <<batchVars, trackerVars, bpVars, concVars, cmdVars>>

ParseNext == ParseLine
InitParse == BatchIdle /\ TrackerIdle /\ BpIdle /\ ConcIdle /\ CmdIdle /\ ParseIdle
SpecParse == InitParse /\ [][ParseNext]_vars

----------------------------------------------------------------------------
\* compress_batch with its threads scheduled fairly: the calling thread and
\* every worker thread that can take a step eventually takes one, and every
\* encoder process that was started eventually exits.

LiveCalls ==
    { Call(<<P1>>, "None", 1, Request("None", FALSE, TRUE)),
      Call(<<X1, Y1>>, "out", 1, Request("None", FALSE, FALSE)),
      Call(<<X1, Y1>>, "out", 2, Request("None", FALSE, FALSE)),
      Call(<<X1, Y1, Z1>>, "out", 1, Request("None", FALSE, FALSE)) }

LiveInit ==
    /\ \E c \in LiveCalls :
         /\ files = c.files
         /\ output_dir = c.output_dir
         /\ max_workers = c.max_workers
         /\ req = c.req
    /\ mpc = "start"
    /\ file_pairs = <<>>
    /\ submitted = 0
    /\ queue = <<>>
    /\ numThreads = 0
    /\ idleSem = 0
    /\ job = <<>>
    /\ waiter = <<>>
    /\ early = {}
    /\ yielded = {}
    /\ results = <<>>
    /\ disk = {}
    /\ presetCodec = "vp9"
    /\ now = StartClock
    /\ events = <<>>
    /\ finishOrder = <<>>

JobIds == 1..3
\* The steps of the calling thread.
MainStep == BatchStart \/ Submit \/ EnterAsCompleted \/ Collect \/ BatchReturn
\* The steps of the worker thread that runs job j.
RunnerStep(j) ==
    /\ j \in Jobs
    /\ \/ StartJob(j) \/ Setup(j) \/ Spawn(j) \/ ReadLine(j) \/ ReadEOF(j)
       \/ Complete(j) \/ Classify(j) \/ SizeExists(j) \/ GetSize(j)
       \/ Cleanup(j) \/ SingleDone(j)
\* The encoder process of job j exits.
EncoderExit(j) == j \in Jobs /\ ProcExit(j)

Fairness ==
    /\ WF_vars(MainStep)
    /\ \A j \in JobIds : WF_vars(RunnerStep(j)) /\ WF_vars(EncoderExit(j))

InitLive == LiveInit /\ TrackerIdle /\ BpIdle /\ ConcIdle /\ CmdIdle /\ ParseIdle
SpecLive == InitLive /\ [][BatchNext]_vars /\ Fairness

----------------------------------------------------------------------------
\* compress_batch run where output files may exist already (a batch run a
\* second time): the file system starts with or without a file at the first
\* output path.

OverwriteCalls ==
    { Call(<<P1>>, "None", 1, Request("None", FALSE, TRUE)),
      Call(<<P1>>, "None", 1, Request("None", FALSE, FALSE)),
      Call(<<X1, Y1>>, "out", 2, Request("None", FALSE, FALSE)) }

OverwriteInit ==
    /\ \E c \in OverwriteCalls :
         /\ files = c.files
         /\ output_dir = c.output_dir
         /\ max_workers = c.max_workers
         /\ req = c.req
         /\ \E present \in BOOLEAN :
              disk = IF present THEN {BuildFilePairs(c.files, c.output_dir).pairs[1].output}
                     ELSE {}
    /\ mpc = "start"
    /\ file_pairs = <<>>
    /\ submitted = 0
    /\ queue = <<>>
    /\ numThreads = 0
    /\ idleSem = 0
    /\ job = <<>>
    /\ waiter = <<>>
    /\ early = {}
    /\ yielded = {}
    /\ results = <<>>
    /\ presetCodec = "vp9"
    /\ now = StartClock
    /\ events = <<>>
    /\ finishOrder = <<>>

InitOverwrite == OverwriteInit /\ TrackerIdle /\ BpIdle /\ ConcIdle /\ CmdIdle /\ ParseIdle
SpecOverwrite == InitOverwrite /\ [][BatchNext]_vars

----------------------------------------------------------------------------
\* Properties of compress_batch (specification Spec).

Failed(r) == ~r.success
ResultsOf(j) == {i \in 1..Len(results) : results[i].job = j}
NumEvents(j, kind) == Cardinality({i \in 1..Len(events[j]) : events[j][i].kind = kind})
SetupErrors == {"InvalidInputFileError", "InvalidOutputPathError", "InvalidCodecError",
                "AlphaChannelNotSupportedError", "FFmpegNotFoundError"}

\* C1: when compress_batch returns, the list holds exactly one result per
\* submitted entry, none dropped and none duplicated, and each result carries
\* the input path of the entry it belongs to, whatever mix of jobs failed.
C1_OneResultPerEntry ==
    mpc = "returned" =>
        /\ Len(results) = Len(files)
        /\ \A j \in 1..Len(files) : Cardinality(ResultsOf(j)) = 1
        /\ \A i \in 1..Len(results) :
             /\ results[i].job \in 1..Len(files)
             /\ results[i].input_path = files[results[i].job].input

\* Three entries, results of both kinds.
C1_Witness ==
    /\ mpc = "returned"
    /\ Len(results) = 3
    /\ \E i, k \in 1..Len(results) : results[i].success /\ Failed(results[k])

\* C2: a job whose own encoder run is seen to exit with code 0, and whose own
\* progress callback raised nothing, yields success=true whatever the other
\* jobs of the batch do.
C2_OtherJobsUnaffected ==
    \A j \in Jobs :
        ( /\ job[j].pc = "done"
          /\ job[j].return_code = "exit0"
          /\ job[j].result.error.cause \notin {"CallbackError", "ZeroDivisionError"} )
        => job[j].result.success

\* C3: at most max_workers jobs are inside VideoCompressor.compress at once.
C3_AtMostLimitRunning ==
    Cardinality({j \in Jobs : InCompress(j)}) <= max_workers

\* The limit of 2 is reached while a third job waits in the queue.
C3_Witness ==
    /\ max_workers = 2
    /\ Cardinality({j \in Jobs : InCompress(j)}) = 2
    /\ \E j \in Jobs : job[j].pc = "queued"

\* C4: no exception raised inside a job leaves compress_batch: the call raises
\* only before any job exists, no future holds an exception, and every job
\* that failed has a result with success=false and an error description.
C4_NoJobExceptionEscapes ==
    /\ mpc = "raised" => job = <<>>
    /\ \A j \in Jobs : job[j].pc = "done" =>
         /\ job[j].exc = NoExc
         /\ job[j].result.job = j
         /\ Failed(job[j].result) <=> job[j].result.error # NoExc
         /\ job[j].return_code # "exit0" => Failed(job[j].result)
    /\ \A i \in 1..Len(results) : results[i] = job[results[i].job].result

\* A returned batch with a validation failure and a failure inside the run.
C4_Witness ==
    /\ mpc = "returned"
    /\ \E i, k \in 1..Len(results) :
         /\ results[i].error.cause \in SetupErrors
         /\ results[k].error.cause \in {"CallbackError", "OSError", "ZeroDivisionError"}

\* C5 as claimed: VideoCompressor.compress never leaves by raising.
C5_CompressNeverRaises ==
    \A j \in Jobs : job[j].pc # "raised"

\* C5 as amended: compress leaves a failing job by raising (an error met
\* before the encoding step, in validation, codec resolution, the alpha check
\* or the probe, as itself; a failure in command building, spawning or the
\* encoder run as CompressionFailedError)
\* and returns only successful results; _compress_single, the per-job
\* boundary of the batch, turns every such exception into a result with
\* success=false and the error description.
C5_FailureRaisesAndIsConvertedAtBoundary ==
    \A j \in Jobs :
        /\ job[j].pc = "returned" => job[j].result.success
        /\ job[j].pc = "raised" =>
             /\ job[j].exc.type \in SetupErrors \cup {"CompressionFailedError"}
             /\ job[j].exc.type \in SetupErrors <=> job[j].proc = "none" /\ ~job[j].tracker.callback
                                                    /\ job[j].exc.cause \in SetupErrors
        /\ job[j].pc = "done" /\ Failed(job[j].result) =>
             /\ job[j].result.error.type \in SetupErrors \cup {"CompressionFailedError"}
             /\ job[j].result.input_path = file_pairs[j].input
             /\ job[j].result.output_path = file_pairs[j].output

\* A job at the boundary with a wrapped failure of the spawn, another one
\* converted from a validation error.
C5_Witness ==
    \E j, k \in Jobs :
        /\ job[j].pc = "raised" /\ job[j].exc = Exc("CompressionFailedError", "OSError")
        /\ job[k].pc = "done" /\ job[k].result.error.type \in SetupErrors

C13_NoOutputLeftByFailedJob ==
    mpc = "returned" =>
        \A i \in 1..Len(results) :
            Failed(results[i]) => results[i].output_path \notin disk

\* C34: the output file of a job that has succeeded, once on disk, stays on
\* disk in every later step up to the return of compress_batch: no cleanup
\* of another job of the batch removes it.
C34_SuccessfulOutputKept ==
    [][ \A k \in Jobs :
          ( /\ job[k].pc \in {"returned", "done"} /\ job[k].result.success
            /\ file_pairs[k].output \in disk )
          => file_pairs[k].output \in disk' ]_vars

\* C35: a job whose compress call has ended, with a result or with an
\* exception after its cleanup, has no encoder process still running.
C35_NoResultWhileEncoderRuns ==
    \A j \in Jobs :
        job[j].pc \in {"returned", "raised", "done"} => job[j].proc # "running"

\* C38: the step by which a job fails without its encoder ever having been
\* started leaves a file that is present at the job's output path in place.
C38_UnspawnedFailureKeepsExistingFile ==
    [][ \A j \in Jobs :
          ( /\ job[j].pc # "raised" /\ job'[j].pc = "raised"
            /\ job'[j].proc = "none"
            /\ file_pairs[j].output \in disk )
          => file_pairs[j].output \in disk' ]_vars

\* C14: compress_batch called with an empty list, or with a limit below 1,
\* never returns a result list: the call fails.
C14_StructuralMisconfigurationFails ==
    (files = <<>> \/ max_workers < 1) => mpc # "returned"

ValidationErrors == {"InvalidInputFileError", "InvalidOutputPathError",
                     "InvalidCodecError", "AlphaChannelNotSupportedError"}

\* C17: a job that ends with a validation error never had an encoder process
\* started and no event delivered, and the error stays with that job: the
\* batch call does not fail.
C17_ValidationErrorsBeforeSpawn ==
    \A j \in Jobs :
        LET e == IF job[j].pc = "done" THEN job[j].result.error ELSE job[j].exc
        IN  e.type \in ValidationErrors =>
              /\ job[j].proc = "none"
              /\ job[j].return_code = "unset"
              /\ events[j] = <<>>
              /\ mpc # "raised"

\* A returned batch: one job failed validation with no process started, the
\* other one ran its encoder and succeeded.
C17_Witness ==
    /\ mpc = "returned"
    /\ \E j, k \in Jobs :
         /\ job[j].result.error.type = "InvalidOutputPathError"
         /\ job[j].proc = "none"
         /\ job[k].result.success /\ job[k].proc = "exit0"

\* C18: a job gets a result with success=true only while it is inside
\* compress, and only if its encoder was started and seen to exit with code
\* 0; a finished job whose encoder exited with another code, or was never
\* started, has failed; the results collected for a job are its one result.
C18_SucceededOnlyByExitZero ==
    [][ \A j \in DOMAIN job' :
          /\ job'[j].result.success =>
               /\ job'[j].proc = "exit0" /\ job'[j].return_code = "exit0"
               /\ j \in DOMAIN job
               /\ job[j].result.success \/ job[j].pc \in {"size", "getsize"}
          /\ job'[j].pc = "done" /\ job'[j].return_code = "exit1" =>
               Failed(job'[j].result)
          /\ job'[j].pc = "done" /\ job'[j].proc = "none" => Failed(job'[j].result)
          /\ \A i \in 1..Len(results') :
               results'[i].job = j => results'[i] = job'[j].result ]_vars

\* A returned batch with a job that succeeded after exit code 0, one that
\* failed by a non-zero exit code and one whose encoder could not be started.
C18_Witness ==
    /\ mpc = "returned"
    /\ \E j, k, l \in Jobs :
         /\ job[j].result.success /\ job[j].return_code = "exit0"
         /\ Failed(job[k].result) /\ job[k].return_code = "exit1"
         /\ Failed(job[l].result) /\ job[l].proc = "none"
              /\ job[l].result.error.cause = "OSError"

\* C19: with a bare input path among the entries and no output directory,
\* compress_batch fails before anything is started: no pair list, no job, no
\* worker thread, no file written, no result.
C19_MissingOutputDirFailsFirst ==
    ( /\ \E i \in 1..Len(files) : ~files[i].pair
      /\ output_dir = "None"
      /\ mpc # "start" )
    => /\ mpc = "raised"
       /\ file_pairs = <<>> /\ job = <<>> /\ submitted = 0 /\ numThreads = 0
       /\ results = <<>> /\ disk = {}

\* The call has failed on a list whose first entry is an explicit pair and
\* whose second is a bare path.
C19_Witness ==
    /\ mpc = "raised"
    /\ output_dir = "None"
    /\ Len(files) = 2 /\ files[1].pair /\ ~files[2].pair
    /\ max_workers >= 1

Classified(j) == job[j].pc \in {"size", "getsize", "cleanup", "returned", "raised", "done"}

\* C24: for every job with a sink whose encoder was started, the terminal
\* event is emitted after the process has exited and before the job is
\* classified: a job that has become Succeeded or Failed has its terminal
\* event, whatever the exit code, and a terminal event is there only once
\* the exit has been seen.
C24_TerminalEventAfterExitBeforeClassified ==
    \A j \in Jobs :
        (req.callback /\ job[j].proc # "none") =>
            /\ NumEvents(j, "complete") >= 1 =>
                 Exited(j) /\ job[j].return_code = job[j].proc
            /\ Classified(j) => NumEvents(j, "complete") = 1

\* C28: a job that leaves by the failure cleanup of compress fails with its
\* primary error, as CompressionFailedError carrying the cause it had before
\* the cleanup, whether or not the removal of the output file succeeded; the
\* error of the removal never becomes the job's error.
C28_CleanupFailureSwallowed ==
    [][ \A j \in DOMAIN job :
          (job[j].pc = "cleanup" /\ job'[j].pc # "cleanup") =>
              /\ job'[j].pc = "raised"
              /\ job'[j].exc.type = "CompressionFailedError"
              /\ job'[j].exc.cause = job[j].exc.cause
              /\ job'[j].exc.cause # "PermissionError" ]_vars

\* The only job of a batch failed by the exit code of its encoder, and the
\* output file is still there after the cleanup: its removal had failed.
C28_Witness ==
    /\ N = 1 /\ mpc = "returned"
    /\ job[1].return_code = "exit1"
    /\ file_pairs[1].output \in disk
    /\ results[1].error = Exc("CompressionFailedError", "CompressionFailedError")

\* C26: the returned list is in completion order: the result of a job that
\* finished before another one precedes the result of that one.
C26_ResultsInCompletionOrder ==
    mpc = "returned" =>
        \A a, b \in 1..Len(finishOrder) :
            a < b => \E i, k \in 1..Len(results) :
                        /\ i < k
                        /\ results[i].job = finishOrder[a]
                        /\ results[k].job = finishOrder[b]

----------------------------------------------------------------------------
\* Properties of compress_batch under fair scheduling (specification SpecLive).

Started(j) == job[j].pc \notin {"none", "queued"}
NumBusy == Cardinality({k \in Jobs : Busy(k)})
\* The position of job j, "none" as long as the job does not exist.
PcOf(j) == IF j \in Jobs THEN job[j].pc ELSE "none"

\* C25: jobs start in submission order, and a freed slot is taken at once: a
\* job never starts before the jobs submitted earlier; whenever a job is
\* pending and fewer than max_workers worker threads are occupied, a worker
\* thread is free to take the next job; and a job pending while fewer than
\* max_workers jobs run does not stay pending.
C25_StartInOrderAndFreedSlotTaken ==
    /\ [](\A j \in Jobs : Started(j) => \A i \in 1..(j - 1) : Started(i))
    /\ []((queue # <<>> /\ NumBusy < max_workers) => NumBusy < numThreads)
    /\ \A j \in JobIds :
         (PcOf(j) = "queued" /\ Cardinality({k \in Jobs : InCompress(k)}) < max_workers)
         ~> (PcOf(j) # "queued")

\* Under a limit of 1 the second of three jobs has started after the first
\* one has finished, while the third one is pending.
C25_Witness ==
    /\ max_workers = 1 /\ N = 3
    /\ job[1].pc = "done" /\ InCompress(2) /\ job[3].pc = "queued"

\* C27: with encoders that exit and callbacks that return, every started job
\* eventually is Succeeded or Failed, and compress_batch eventually returns
\* with one result per entry.
C27_EveryJobEndsAndBatchReturns ==
    /\ \A j \in JobIds :
         (PcOf(j) \notin {"none", "queued"}) ~> (PcOf(j) \in {"returned", "raised", "done"})
    /\ <>(mpc = "returned" /\ Len(results) = Len(files))

\* A batch of three jobs under a limit of 1 has returned, with a job that
\* succeeded and a job that failed after its encoder had run.
C27_Witness ==
    /\ mpc = "returned" /\ N = 3 /\ max_workers = 1 /\ Len(results) = 3
    /\ \E i, k \in 1..3 :
         /\ results[i].success
         /\ Failed(results[k]) /\ job[results[k].job].return_code = "exit1"

----------------------------------------------------------------------------
\* Properties of compress_batch_async (specification SpecAsync).

\* C20: with a limit of at least 1, at most max_workers jobs are inside
\* VideoCompressor.compress at once during compress_batch_async.
C20_AsyncAtMostLimitRunning ==
    max_workers >= 1 => Cardinality({j \in Jobs : InCompress(j)}) <= max_workers

\* C37: among the events delivered for a job the terminal event of
\* complete() is the last one: no update event of the job follows it, also
\* while other jobs of the batch deliver their events.
C37_TerminalEventIsLast ==
    \A j \in Jobs :
        \A i \in 1..Len(events[j]) :
            events[j][i].kind = "complete" => i = Len(events[j])

\* Two jobs have delivered events; one of them an update and then its
\* terminal event, while the other was still reading its stream.
C37_Witness ==
    \E j, k \in Jobs :
        /\ j # k
        /\ Len(events[j]) = 2
        /\ events[j][1].kind = "update" /\ events[j][2].kind = "complete"
        /\ events[k] # <<>> /\ job[k].pc = "read"

\* C21: when compress_batch_async returns, the list holds exactly one result
\* per submitted entry, and every result, the failed ones included, carries
\* the input path and the output path of the entry it originates from.
C21_AsyncOneTaggedResultPerEntry ==
    mpc = "returned" =>
        /\ Len(results) = Len(files)
        /\ \A j \in 1..Len(files) : Cardinality(ResultsOf(j)) = 1
        /\ \A i \in 1..Len(results) :
             /\ results[i].input_path = file_pairs[results[i].job].input
             /\ results[i].output_path = file_pairs[results[i].job].output

----------------------------------------------------------------------------
\* Properties of ProgressTracker (specification SpecTracker).

UpdateEvents == {i \in 1..Len(trLog) : trLog[i].event.kind = "update"}

\* C7: two events emitted by update are never closer together than the
\* minimum interval; only the event of complete() may follow sooner.
C7_UpdatesAtLeastIntervalApart ==
    \A i, k \in UpdateEvents : i < k => trLog[k].at - trLog[i].at >= UpdateInterval

\* Two updates were emitted, a third one has just been throttled, and a
\* terminal event followed an update at once.
C7_Witness ==
    /\ Cardinality(UpdateEvents) = 2
    /\ trLast = "throttled"
    /\ \E i \in 1..Len(trLog) \ UpdateEvents :
         i > 1 /\ trLog[i].at = trLog[i - 1].at /\ (i - 1) \in UpdateEvents

\* C15: no call of update fails, and every event emitted by update or
\* complete carries a percentage within 0..100.
C15_PercentageWithinRange ==
    /\ trLast # "raised"
    /\ \A i \in 1..Len(trLog) :
         trLog[i].event.percentage >= 0 /\ trLog[i].event.percentage <= 100

\* C16: with total_duration > 0 no update fails, and an update with
\* current_time = total_duration and speed 1 that is not throttled emits an
\* event with percentage 100 and eta 0.
C16_FullTimeGivesHundredAndZeroEta ==
    /\ tr.total_duration > 0 => trLast # "raised"
    /\ \A i \in UpdateEvents :
         ( /\ trLog[i].event.total_time > 0
           /\ trLog[i].event.current_time = trLog[i].event.total_time
           /\ trLog[i].speed = 1 )
         => /\ trLog[i].event.percentage = 100
            /\ ~trLog[i].event.eta.none
            /\ trLog[i].event.eta.num = 0

\* Such an update was emitted after an earlier event of the same tracker.
C16_Witness ==
    \E i \in UpdateEvents :
        /\ i > 1
        /\ trLog[i].event.total_time = 2
        /\ trLog[i].event.current_time = 2
        /\ trLog[i].speed = 1
        /\ trLast = "emitted"

\* C39: the ETA of every event emitted by update or complete is absent or
\* not negative.
C39_EtaNeverNegative ==
    \A i \in 1..Len(trLog) :
        LET eta == trLog[i].event.eta IN
        eta.none \/ (eta.den > 0 /\ eta.num >= 0)

\* C36: an update is throttled exactly when less than the interval has passed
\* since the last update that was not throttled, and a throttled update
\* leaves every field of the tracker as it was and delivers no event.
C36_ThrottledUpdateChangesNothing ==
    [][ trLast' \in {"throttled", "emitted", "raised"} =>
          /\ trLast' = "throttled" <=> now' - tr.last_update_time < UpdateInterval
          /\ trLast' = "throttled" => (tr' = tr /\ trLog' = trLog) ]_vars

\* An update was emitted and a later call, four tenths after it, has just
\* been throttled: the last-emission time is still that of the emitted one.
C36_Witness ==
    /\ trLast = "throttled"
    /\ UpdateEvents # {}
    /\ now = tr.last_update_time + 4
    /\ trLog[Len(trLog)].at = tr.last_update_time

\* C29: in every event emitted by update the ETA is present exactly when
\* speed > 0 and current_time > 0, and is then the quotient
\* (total_duration - current_time) / speed.
C29_EtaPresentIffSpeedAndTimePositive ==
    \A i \in UpdateEvents :
        LET e == trLog[i].event IN
        /\ ~e.eta.none <=> (trLog[i].speed > 0 /\ e.current_time > 0)
        /\ ~e.eta.none =>
             /\ e.eta.num = e.total_time - e.current_time
             /\ e.eta.den = trLog[i].speed

\* Two updates were emitted: one with speed 2 and an ETA of (2 - 1)/2, and
\* one with speed 1 and current_time 0, without ETA.
C29_Witness ==
    \E i, k \in UpdateEvents :
        /\ trLog[i].speed = 2 /\ trLog[i].event.eta = Eta(1, 2)
        /\ trLog[k].speed = 1 /\ trLog[k].event.current_time = 0
             /\ trLog[k].event.eta.none

----------------------------------------------------------------------------
\* Properties of BatchProgress (specifications SpecProgress and SpecConc).

EverComplete == {f \in FileNames :
                   \E i \in 1..Len(bpHist) :
                      bpHist[i].filename = f /\ bpHist[i].percentage >= 100}

\* C8: completed_files never exceeds total_files and never decreases (here
\* for calls that name no more files than total_files).
C8_CompletedWithinTotalAndMonotonic ==
    [][ Cardinality(DOMAIN bp'.file_progress) <= bp'.total_files =>
          /\ bp'.completed_files <= bp'.total_files
          /\ bp'.completed_files >= bp.completed_files ]_vars

\* C9: completed_files counts each job once: it equals the number of files
\* whose percentage has reached 100, however often each reached it.
C9_EachJobCountedOnce ==
    bp.completed_files = Cardinality(EverComplete)

\* C30: in every state reached by calls of update_file_progress with
\* percentages in 0..100, reading overall_percentage does not fail and gives
\* a value between 0 and 100.
C30_OverallPercentageWithinRange ==
    LET o == OverallPercentage(bp) IN
    /\ o.raised = "None"
    /\ o.num >= 0
    /\ o.num <= 100 * o.den

RECURSIVE Merges(_, _)
\* Every order of the calls of two threads that keeps each thread's order.
Merges(a, b) ==
    IF a = <<>> THEN {b}
    ELSE IF b = <<>> THEN {a}
    ELSE {<<Head(a)>> \o m : m \in Merges(Tail(a), b)}
         \cup {<<Head(b)>> \o m : m \in Merges(a, Tail(b))}

RECURSIVE ApplyCalls(_, _)
\* The calls of a sequence made one after the other.
ApplyCalls(b, calls) ==
    IF calls = <<>> THEN b
    ELSE ApplyCalls(UpdateFileProgress(b, Head(calls).filename, Head(calls).percentage),
                    Tail(calls))

\* C10: once every callback call has returned, the BatchProgress is in the
\* state some sequential order of the calls gives.
C10_SerializableCallbacks ==
    (\A t \in Threads : cth[t].pc = "idle" /\ cth[t].todo = <<>>) =>
        cbp \in {ApplyCalls(NewBatchProgress(cbp.total_files), m) :
                   m \in Merges(cth[1].done, cth[2].done)}

----------------------------------------------------------------------------
\* Properties of the command builder (specification SpecCompress).

SameCall(a, b) == a.request = b.request /\ a.video_info = b.video_info

\* C11: the same request and metadata give the same argument list, whatever
\* compress calls were made in between.
C11_SameRequestSameCommand ==
    (cmdRef.built /\ cmdLast.built /\ SameCall(cmdRef, cmdLast))
        => cmdRef.cmd = cmdLast.cmd

\* The codec a request asks for: the override, else the codec the preset is
\* defined with.
EffectiveCodec(r) == IF r.codec # "None" THEN r.codec ELSE PRESETS[r.preset].codec

\* C12: a call with alpha preservation whose effective codec is vp8 (and
\* whose paths are valid) fails with AlphaChannelNotSupportedError, builds no
\* command and runs no encoder, whatever the keyword overrides.
C12_AlphaOnVp8AlwaysFails ==
    ( /\ cmdLast.validated
      /\ cmdLast.request.preserve_alpha
      /\ cmdLast.request.preset \in PresetNames
      /\ EffectiveCodec(cmdLast.request) = "vp8" )
    => /\ cmdLast.outcome = "AlphaChannelNotSupportedError"
       /\ ~cmdLast.built
       /\ cmdLast.cmd = <<>>

\* The flag cmd holds at some place, followed by the value val.
HasPair(cmd, flag, val) ==
    \E i \in 1..(Len(cmd) - 1) : cmd[i] = flag /\ cmd[i + 1] = val
HasArg(cmd, arg) == \E i \in 1..Len(cmd) : cmd[i] = arg
\* The speed a call asks for: the speed keyword, else the preset's speed.
AppliedSpeed(c) == GetInt(c.request.options.speed, PRESETS[c.request.preset].speed)
\* Every codec-specific argument of cmd is the one of codec k.
FollowsCodec(cmd, k, speed) ==
    IF k = "vp9"
    THEN /\ HasPair(cmd, "-c:v", "libvpx-vp9") /\ ~HasPair(cmd, "-c:v", "libvpx")
         /\ HasPair(cmd, "-speed", ToString(speed)) /\ ~HasArg(cmd, "-cpu-used")
         /\ HasPair(cmd, "-row-mt", "1")
    ELSE /\ HasPair(cmd, "-c:v", "libvpx") /\ ~HasPair(cmd, "-c:v", "libvpx-vp9")
         /\ HasPair(cmd, "-cpu-used", ToString(speed)) /\ ~HasArg(cmd, "-speed")
         /\ ~HasArg(cmd, "-row-mt")

\* C31: the codec selector, the speed flag and the row-mt hint of a built
\* command all follow one codec; for the command just built it is the codec
\* the preset object holds, and the speed value is the one the call asks for.
C31_CodecArgumentsFollowOneCodec ==
    /\ cmdLast.built =>
          FollowsCodec(cmdLast.cmd, presets[cmdLast.request.preset].codec,
                       AppliedSpeed(cmdLast))
    /\ cmdRef.built =>
          \E k \in {"vp8", "vp9"} : FollowsCodec(cmdRef.cmd, k, AppliedSpeed(cmdRef))

\* A vp8 command was built from the vp9 preset 'web' by a codec override,
\* and a vp9 command with a speed keyword is kept from an earlier call.
C31_Witness ==
    /\ cmdLast.built /\ cmdLast.request.preset = "web" /\ cmdLast.request.codec = "vp8"
    /\ HasPair(cmdLast.cmd, "-cpu-used", "4") /\ ~HasArg(cmdLast.cmd, "-row-mt")
    /\ cmdRef.built /\ cmdRef.request.options = LightOptions
    /\ HasPair(cmdRef.cmd, "-speed", "2") /\ HasPair(cmdRef.cmd, "-row-mt", "1")

\* C32: the quality factor of every built command lies in 0..63 and its
\* speed value in the range of the command's codec (0..5 under '-speed' for
\* vp9, 0..16 under '-cpu-used' for vp8).
C32_ValuesWithinCodecRange ==
    \A c \in {cmdRef, cmdLast} :
        c.built =>
            /\ \E v \in 0..63 : HasPair(c.cmd, "-crf", ToString(v))
            /\ HasPair(c.cmd, "-c:v", "libvpx-vp9")
                  => \E v \in 0..5 : HasPair(c.cmd, "-speed", ToString(v))
            /\ HasPair(c.cmd, "-c:v", "libvpx")
                  => \E v \in 0..16 : HasPair(c.cmd, "-cpu-used", ToString(v))

\* C33: after any sequence of compress calls every entry of the preset table
\* has the codec and the parameters it is defined with.
C33_PresetTableUnchanged ==
    \A n \in PresetNames : presets[n] = PRESETS[n]

\* The cap that applies to a call: the max_resolution keyword if given, else
\* the cap the preset is defined with.
AppliedCap(c) ==
    IF c.request.options.cap_given THEN c.request.options.max_resolution
    ELSE PRESETS[c.request.preset].max_resolution
Exceeds(v, cap) == ~cap.none /\ (v.width > cap.width \/ v.height > cap.height)
FilterPositions(cmd) == {i \in 1..Len(cmd) : cmd[i] = "-vf"}
ExpectedFilter(cap) ==
    "scale=min(" \o ToString(cap.width) \o "\\,iw):min(" \o ToString(cap.height)
        \o "\\,ih):force_original_aspect_ratio=decrease"

\* C22: a built command holds a scale filter if and only if a cap applies and
\* the source is wider or higher than it; the filter is then the only one and
\* bounds the width by min(cap width, iw) and the height by min(cap height, ih).
C22_ScaleFilterIffSourceExceedsCap ==
    \A c \in {cmdRef, cmdLast} :
        c.built =>
            /\ FilterPositions(c.cmd) # {} <=> Exceeds(c.video_info, AppliedCap(c))
            /\ Cardinality(FilterPositions(c.cmd)) <= 1
            /\ \A i \in FilterPositions(c.cmd) :
                 i < Len(c.cmd) /\ c.cmd[i + 1] = ExpectedFilter(AppliedCap(c))

\* A source exactly at the preset's cap was left unscaled, and a source below
\* the preset's cap is scaled to the smaller cap given as a keyword.
C22_Witness ==
    /\ cmdRef.built /\ cmdRef.video_info = CapVideo
    /\ FilterPositions(cmdRef.cmd) = {}
    /\ cmdLast.built /\ cmdLast.video_info = SmallVideo
    /\ cmdLast.request.options.cap_given
    /\ \E i \in FilterPositions(cmdLast.cmd) :
         cmdLast.cmd[i + 1]
           = "scale=min(640\\,iw):min(360\\,ih):force_original_aspect_ratio=decrease"

----------------------------------------------------------------------------
\* Properties of FFmpegProgressParser (specification SpecParse).

\* The characters int() and float() take as a number: digits, with at most
\* one decimal point for float().
Numeric(s) ==
    /\ s # <<>>
    /\ \A i \in 1..Len(s) : s[i] \in Digits \cup {"."}
    /\ Cardinality({i \in 1..Len(s) : s[i] = "."}) <= 1
    /\ \E i \in 1..Len(s) : s[i] \in Digits

====
